---- MODULE Spec2Model ----
(***************************************************************************)
(* Model of backend.py: PumpLink (one serial link per Arduino) and         *)
(* QBackend (the QML-facing controller that routes global pump ids to the  *)
(* two links and keeps last_flows / paused_flows).                         *)
(*                                                                         *)
(* Numbers.  Flows and periods are integers (uL/min, seconds).  Duty       *)
(* values are fixed-point hundredths: the fraction 0.25 is 25, the         *)
(* fraction 1.0 is 100, and the percentage 25.0 is 2500.                   *)
(* Optional arguments (None or a number) are <<>> or <<v>>.                *)
(* Python strings that the code inspects (mode) are sequences of           *)
(* one-character strings; strings it only passes on (shape) are strings.   *)
(***************************************************************************)
EXTENDS Integers, Sequences, FiniteSets, TLC

-----------------------------------------------------------------------------
(* Bounds of the model *)

\* controller operations called in one run
MaxOps == 3
\* flows given to the operations range over -1..MaxFlow
MaxFlow == 2
\* failed connection attempts of one open() call that are counted
MaxRetries == 2
\* PumpLink methods called directly in one run (SpecLink)
MaxLinkOps == 2
\* PumpLink methods called by the threads in one run (SpecTx)
MaxCalls == 3
\* set-flow, pause and resume operations called in one run (SpecPause)
MaxPauseOps == 4

-----------------------------------------------------------------------------
(* Program constants *)

\* period_sec replaced by 1.0 when it is not > 0
DefaultPeriod == 1
\* duty_fraction 0.5 (in hundredths) used when the given one is <= 0
DutyHalf == 50
\* the fraction 1 (in hundredths): duty_fraction >= 1 is clamped
DutyOne == 100
\* duty_fraction 0.99 (in hundredths) used when the given one is >= 1
DutyMax == 99
\* duty_percent = duty_fraction * 100.0
Percent == 100
\* wave_off: period_sec = 1.0
OffPeriod == 1
\* wave_off: duty_fraction = 0.5 (in hundredths)
OffDuty == 50

Links == {"A", "B"}

PUMP_MAP_A == (1 :> 1) @@ (4 :> 2) @@ (5 :> 3) @@ (7 :> 4) @@ (8 :> 5)
PUMP_MAP_B == (2 :> 1) @@ (3 :> 2) @@ (6 :> 3) @@ (9 :> 4)

\* _all_links(): [linkA, linkB], in this order
all_links == <<"A", "B">>

-----------------------------------------------------------------------------
(* Inputs of the operations *)

None == <<>>
Some(v) == <<v>>
IsNone(x) == x = <<>>
Val(x) == x[1]

Flows == (0 - 1)..MaxFlow
OptFlows == {None} \cup {Some(f) : f \in Flows}

\* global ids given by callers: 0 and 10 are outside the mapping
PumpInputs == {0, 1, 4, 9, 10}
AllPumps == <<1, 2, 3, 4, 5, 6, 7, 8, 9>>
IdLists == {AllPumps, <<0, 9, 10, 4>>, <<1, 1>>}

Shapes == {"Square", "Sinusoidal"}
Periods == {0, 10}
\* duty fractions -0.25, 0, 0.25, 0.99, 1.0 and 1.5, in hundredths
Duties == {0 - 25, 0, 25, 99, 100, 150}
MinutesIn == {1, 30}
\* shape, period and duty fraction given to the controller's wave operations
WaveInputs == {[shape |-> "Square", period |-> 10, duty |-> 50],
               [shape |-> "Sinusoidal", period |-> 0, duty |-> 0],
               [shape |-> "Square", period |-> 0 - 3, duty |-> 150]}
\* local pump ids given to PumpLink when it is called directly
LocalInputs == {5}

UpperChars == <<"A", "C", "L", "M", "N", "O", "P", "R", "S", "T", "U", "I", "E">>
LowerChars == <<"a", "c", "l", "m", "n", "o", "p", "r", "s", "t", "u", "i", "e">>

\* str.lower(), character by character
LowerChar(c) ==
    IF \E i \in 1..Len(UpperChars) : UpperChars[i] = c
    THEN LowerChars[CHOOSE i \in 1..Len(UpperChars) : UpperChars[i] = c]
    ELSE c
Lower(s) == [i \in 1..Len(s) |-> LowerChar(s[i])]
\* str.startswith()
StartsWith(s, pre) == Len(s) >= Len(pre) /\ SubSeq(s, 1, Len(pre)) = pre

StrConstant == <<"c", "o", "n", "s", "t", "a", "n", "t">>
StrPulsatile == <<"p", "u", "l", "s", "a", "t", "i", "l", "e">>
Modes == { <<"C", "o", "n", "s", "t", "a", "n", "t">>,
           <<"P", "u", "l", "s", "a", "t", "i", "l", "e">>,
           <<"p", "u", "l", "s", "a", "t", "i", "l", "e">>,
           <<"R", "a", "m", "p">> }

-----------------------------------------------------------------------------
(* Wire commands (the dict given to json.dumps) *)

FlowCmd(pump, f) == [cmd |-> "flow", pump |-> pump, flow |-> f]
PrimeCmd(pump) == [cmd |-> "prime", pump |-> pump]
StopCmd(pump) == [cmd |-> "stop", pump |-> pump]
StopAllCmd == [cmd |-> "stop_all"]

Max(a, b) == IF a >= b THEN a ELSE b

\* WavePeriod that passes the period on as given
WavePeriod_as_given(period_sec) == period_sec

\* PumpLink.start_wave: the frame it builds from its arguments
WavePeriod(period_sec) == IF period_sec > 0 THEN period_sec ELSE DefaultPeriod

\* WaveDuty without the clamp of fractions >= 1
WaveDuty_no_upper(duty_fraction) ==
    LET d1 == IF duty_fraction <= 0 THEN DutyHalf ELSE duty_fraction
    IN d1 * Percent

WaveDuty(duty_fraction) ==
    LET d1 == IF duty_fraction <= 0 THEN DutyHalf ELSE duty_fraction
        d2 == IF d1 >= DutyOne THEN DutyMax ELSE d1
    IN d2 * Percent

\* WaveBounds without the swap of inverted bounds
WaveBounds_no_swap(min_opt, max_opt, base_opt) ==
    LET fromBase == IsNone(min_opt) /\ IsNone(max_opt) /\ ~IsNone(base_opt)
        mn1 == IF fromBase THEN Some(0) ELSE min_opt
        mx1 == IF fromBase THEN base_opt ELSE max_opt
        mn2 == IF IsNone(mn1) THEN 0 ELSE Val(mn1)
        mx2 == IF IsNone(mx1) THEN mn2 ELSE Val(mx1)
    IN <<Max(0, mn2), Max(0, mx2)>>

\* <<min_flow, max_flow>> of the frame
WaveBounds(min_opt, max_opt, base_opt) ==
    LET fromBase == IsNone(min_opt) /\ IsNone(max_opt) /\ ~IsNone(base_opt)
        mn1 == IF fromBase THEN Some(0) ELSE min_opt
        mx1 == IF fromBase THEN base_opt ELSE max_opt
        mn2 == IF IsNone(mn1) THEN 0 ELSE Val(mn1)
        mx2 == IF IsNone(mx1) THEN mn2 ELSE Val(mx1)
        mn3 == Max(0, mn2)
        mx3 == Max(0, mx2)
    IN IF mx3 < mn3 THEN <<mx3, mn3>> ELSE <<mn3, mx3>>

WaveCmd(pump, shape, period_sec, duty_fraction, min_opt, max_opt, base_opt) ==
    LET b == WaveBounds(min_opt, max_opt, base_opt)
    IN [cmd |-> "wave", pump |-> pump, shape |-> shape,
        period |-> WavePeriod(period_sec), duty |-> WaveDuty(duty_fraction),
        min_flow |-> b[1], max_flow |-> b[2]]

\* PumpLink.wave_off: start_wave with shape "off"
WaveOffCmd(pump, fallback_flow) ==
    WaveCmd(pump, "off", OffPeriod, OffDuty, Some(0), Some(fallback_flow), None)

-----------------------------------------------------------------------------
(* State *)

VARIABLES
    last_flows,     \* QBackend.last_flows: dict, global id -> flow
    paused_flows,   \* QBackend.paused_flows: dict, global id -> flow
    last_error,     \* QBackend._last_error
    connection,     \* the value last emitted by connectionChanged
    ser,            \* per link: "None", "open" or "closed" (self.ser)
    stop,           \* per link: self._stop
    rx_alive,       \* per link: self._rx_thread is alive
    rx_started,     \* per link: number of reader threads started so far
    reachable,      \* per link: serial.Serial(port) succeeds now (environment)
    issued,         \* per link: commands given to _send by the current operation
    wire,           \* per link: frames written to the port by the current operation
    pending,        \* what is left to do of the operation in progress
    okv,            \* QBackend.open: okA, okB
    opn,            \* per link: the latest PumpLink.open() call
    cur,            \* the operation in progress or just returned, with its arguments
    pre,            \* last_flows and paused_flows when it was called
    prevop,         \* "pauseAll" when that is the operation that returned before it
    nops,           \* number of operations called
    tx_lock,        \* per link: the holder of self._tx_lock, or "free"
    emitted,        \* the texts emitted by lastErrorChanged in the current operation
    last_note,      \* the text lastErrorChanged emitted last before it, if any
    thr,            \* per thread that calls a PumpLink directly: its position, its
                    \* call (made: the call has created a serial.Serial) and its log
    port            \* per link: the chunks those threads wrote to the port, in order

vars == <<last_flows, paused_flows, last_error, connection, ser, stop, rx_alive,
          rx_started, reachable, issued, wire, pending, okv, opn, cur, pre,
          prevop, nops, tx_lock, emitted, last_note, thr, port>>

\* the threads that call a PumpLink directly
Threads == {"t1", "t2"}
\* a thread that is in no PumpLink method
IdleThread ==
    [pc |-> "idle", op |-> "none", link |-> "None", n |-> 0, ret |-> "none",
     via_open |-> FALSE, made |-> FALSE, log |-> <<>>]

NoError == <<"">>
InvalidPump(p) == <<"Invalid pump id", p>>
OpenFailed == <<"Failed to open one or both serial ports">>

EmptyLog == [l \in Links |-> <<>>]
\* fails: failed attempts so far, counted up to MaxRetries; odd: their parity
NoOpen == [ret |-> "none", fails |-> 0, odd |-> FALSE, started |-> 0, was_open |-> FALSE]

\* The program state as one record, for the step function below
State ==
    [last_flows |-> last_flows, paused_flows |-> paused_flows,
     last_error |-> last_error, connection |-> connection, ser |-> ser,
     stop |-> stop, rx_alive |-> rx_alive, rx_started |-> rx_started,
     reachable |-> reachable, issued |-> issued, wire |-> wire,
     pending |-> pending, okv |-> okv, opn |-> opn, tx_lock |-> tx_lock,
     emitted |-> emitted, blocked |-> FALSE]

-----------------------------------------------------------------------------
(* QBackend helpers *)

\* set_error that notifies on every call
set_error_always(s, msg) ==
    [s EXCEPT !.last_error = msg, !.emitted = Append(@, msg)]

\* _set_error: the text is replaced, and lastErrorChanged emitted, only when it differs
set_error(s, msg) ==
    IF msg # s.last_error
    THEN [s EXCEPT !.last_error = msg, !.emitted = Append(@, msg)]
    ELSE s

IsValidPump(p) == p \in DOMAIN PUMP_MAP_A \/ p \in DOMAIN PUMP_MAP_B

\* route_pump that gives link B the global id as the local id
route_pump_global(p) ==
    IF p \in DOMAIN PUMP_MAP_A THEN [link |-> "A", local |-> PUMP_MAP_A[p]]
    ELSE IF p \in DOMAIN PUMP_MAP_B THEN [link |-> "B", local |-> p]
    ELSE [link |-> "None", local |-> 0]

\* _route_pump: (link, local id), or (None, None) for an id in neither map
route_pump(p) ==
    IF p \in DOMAIN PUMP_MAP_A THEN [link |-> "A", local |-> PUMP_MAP_A[p]]
    ELSE IF p \in DOMAIN PUMP_MAP_B THEN [link |-> "B", local |-> PUMP_MAP_B[p]]
    ELSE [link |-> "None", local |-> 0]

\* the state after _route_pump(p): an invalid id records the error
routed(s, p) == IF IsValidPump(p) THEN s ELSE set_error(s, InvalidPump(p))

\* dict.get(p, default)
Get(d, p, default) == IF p \in DOMAIN d THEN d[p] ELSE default
\* d[p] = v
Put(d, p, v) == (p :> v) @@ d
\* d.pop(p, None)
Pop(d, p) == [q \in DOMAIN d \ {p} |-> d[q]]

-----------------------------------------------------------------------------
(* Steps of an operation.  pending is a sequence of instructions; the head *)
(* is executed and replaced by what it leaves to do.                       *)

\* gid: the global id the command is sent for (not part of the frame), or None
ISend(l, frame, g) == [i |-> "send", link |-> l, frame |-> frame, gid |-> g]
IOpenLoop(l, then, frame) == [i |-> "open_loop", link |-> l, then |-> then, frame |-> frame]
NoFrame == [cmd |-> "none"]

\* the thread of the Qt slots, as the holder of a lock
Main == "main"

\* self.ser.write(data); self.ser.flush(): with the device gone the write
\* raises, the exception is caught in _send and the frame is dropped
write(s, l, frame) ==
    IF s.reachable[l] THEN [s EXCEPT !.wire[l] = Append(@, frame)] ELSE s

\* PumpLink._send, up to the call of open()
send(s, ins, rest) ==
    LET l == ins.link
        s1 == [s EXCEPT !.issued[l] = Append(@, [frame |-> ins.frame, gid |-> ins.gid])]
    IN IF s.ser[l] = "open"
       THEN [write(s1, l, ins.frame) EXCEPT !.pending = rest]
       ELSE [s1 EXCEPT !.opn[l] = [NoOpen EXCEPT !.ret = "running"],
                       !.tx_lock[l] = Main,
                       !.pending = <<IOpenLoop(l, "write", ins.frame)>> \o rest]

\* QBackend.open: okX = self.linkX.open(), up to the retry loop
link_open(s, ins, rest) ==
    LET l == ins.link
    IN IF s.ser[l] = "open"
       THEN [s EXCEPT !.opn[l] = [NoOpen EXCEPT !.ret = "true", !.was_open = TRUE],
                      !.okv[l] = TRUE, !.pending = rest]
       ELSE [s EXCEPT !.opn[l] = [NoOpen EXCEPT !.ret = "running"],
                      !.pending = <<IOpenLoop(l, "ret", NoFrame)>> \o rest]

\* what the caller of open() does with its result
open_returns(s, ins, rest, result) ==
    LET l == ins.link
        s1 == [s EXCEPT !.opn[l].ret = IF result THEN "true" ELSE "false",
                        !.pending = rest]
        s2 == [s1 EXCEPT !.tx_lock[l] = "free"]
    IN IF ins.then = "write"
       THEN IF result THEN write(s2, l, ins.frame) ELSE s2
       ELSE [s1 EXCEPT !.okv[l] = result]

\* the reader thread is started unless one is alive
start_reader(s, l) ==
    IF s.rx_alive[l] THEN s
    ELSE [s EXCEPT !.rx_alive[l] = TRUE, !.rx_started[l] = @ + 1,
                   !.opn[l].started = @ + 1]

\* open_loop that starts the reader before it tries to connect
open_loop_reader_first(s, ins, rest) ==
    LET l == ins.link
    IN IF s.stop[l] THEN open_returns(s, ins, rest, FALSE)
       ELSE IF s.reachable[l]
       THEN open_returns(start_reader([s EXCEPT !.ser[l] = "open"], l), ins, rest, TRUE)
       ELSE [start_reader(s, l) EXCEPT !.opn[l].fails = IF @ < MaxRetries THEN @ + 1 ELSE @,
                                       !.opn[l].odd = ~@, !.blocked = TRUE]

\* PumpLink.open: one pass of `while not self._stop`
open_loop(s, ins, rest) ==
    LET l == ins.link
    IN IF s.stop[l] THEN open_returns(s, ins, rest, FALSE)
       ELSE IF s.reachable[l]
       THEN open_returns(start_reader([s EXCEPT !.ser[l] = "open"], l), ins, rest, TRUE)
       ELSE [s EXCEPT !.opn[l].fails = IF @ < MaxRetries THEN @ + 1 ELSE @,
                      !.opn[l].odd = ~@, !.blocked = TRUE]

\* PumpLink.close
link_close(s, ins, rest) ==
    LET l == ins.link
    IN [s EXCEPT !.stop[l] = TRUE,
                 !.ser[l] = IF @ = "open" THEN "closed" ELSE @,
                 !.pending = rest]

-----------------------------------------------------------------------------
(* QBackend operations, as instructions *)

Ins1(i, p) == [i |-> i, p |-> p]
IRecLast(p, f) == [i |-> "rec_last", p |-> p, f |-> f]
IWave(i, p, shape, period, duty, minf, maxf) ==
    [i |-> i, p |-> p, shape |-> shape, period |-> period, duty |-> duty,
     minf |-> minf, maxf |-> maxf]

\* QBackend.set_flow
set_flow(s, ins, rest) ==
    LET r == route_pump(ins.p)
    IN IF ~IsValidPump(ins.p) THEN [routed(s, ins.p) EXCEPT !.pending = rest]
       ELSE [s EXCEPT !.last_flows = Put(@, ins.p, ins.f),
                      !.pending = <<ISend(r.link, FlowCmd(r.local, ins.f), Some(ins.p))>> \o rest]

\* QBackend.prime
prime(s, ins, rest) ==
    LET r == route_pump(ins.p)
    IN IF ~IsValidPump(ins.p) THEN [routed(s, ins.p) EXCEPT !.pending = rest]
       ELSE [s EXCEPT !.pending = <<ISend(r.link, PrimeCmd(r.local), Some(ins.p))>> \o rest]

\* stop_pump with the two commands in the other order
stop_pump_wave_first(s, ins, rest) ==
    LET r == route_pump(ins.p)
    IN IF ~IsValidPump(ins.p) THEN [routed(s, ins.p) EXCEPT !.pending = rest]
       ELSE [s EXCEPT !.pending = <<ISend(r.link, WaveOffCmd(r.local, 0), Some(ins.p)),
                                    ISend(r.link, StopCmd(r.local), Some(ins.p))>> \o rest]

\* QBackend.stop: link.stop(local), then link.wave_off(local, 0.0)
stop_pump(s, ins, rest) ==
    LET r == route_pump(ins.p)
    IN IF ~IsValidPump(ins.p) THEN [routed(s, ins.p) EXCEPT !.pending = rest]
       ELSE [s EXCEPT !.pending = <<ISend(r.link, StopCmd(r.local), Some(ins.p)),
                                    ISend(r.link, WaveOffCmd(r.local, 0), Some(ins.p))>> \o rest]

\* for link in self._all_links(): link.stop_all()
stop_all_links == [k \in 1..Len(all_links) |-> ISend(all_links[k], StopAllCmd, None)]

\* QBackend.pauseAll: self.paused_flows = dict(self.last_flows)
snapshot(s, ins, rest) ==
    [s EXCEPT !.paused_flows = s.last_flows, !.pending = rest]

\* pause_one that snapshots a flow of 0 for an id without a recorded flow
pause_one_saves_unknown(s, ins, rest) ==
    LET p == ins.p
        r == route_pump(p)
        s1 == [s EXCEPT !.paused_flows = Put(@, p, Get(s.last_flows, p, 0))]
    IN IF ~IsValidPump(p) THEN [routed(s1, p) EXCEPT !.pending = rest]
       ELSE [s1 EXCEPT !.pending = <<ISend(r.link, StopCmd(r.local), Some(p))>> \o rest]

\* pause_one with `return` for the invalid id: the rest of the batch is dropped
pause_one_abort(s, ins, rest) ==
    LET p == ins.p
        r == route_pump(p)
        s1 == IF p \in DOMAIN s.last_flows
              THEN [s EXCEPT !.paused_flows = Put(@, p, s.last_flows[p])]
              ELSE s
    IN IF ~IsValidPump(p) THEN [routed(s1, p) EXCEPT !.pending = <<>>]
       ELSE [s1 EXCEPT !.pending = <<ISend(r.link, StopCmd(r.local), Some(p))>> \o rest]

\* QBackend.pausePumps: the loop body for one id
pause_one(s, ins, rest) ==
    LET p == ins.p
        r == route_pump(p)
        s1 == IF p \in DOMAIN s.last_flows
              THEN [s EXCEPT !.paused_flows = Put(@, p, s.last_flows[p])]
              ELSE s
    IN IF ~IsValidPump(p) THEN [routed(s1, p) EXCEPT !.pending = rest]
       ELSE [s1 EXCEPT !.pending = <<ISend(r.link, StopCmd(r.local), Some(p))>> \o rest]

\* resume_one that prefers last_flows to the paused snapshot
resume_one_last_first(s, ins, rest) ==
    LET p == ins.p
        r == route_pump(p)
        flow == Get(s.last_flows, p, Get(s.paused_flows, p, 0))
    IN IF flow > 0
       THEN IF ~IsValidPump(p) THEN [routed(s, p) EXCEPT !.pending = rest]
            ELSE [s EXCEPT !.pending = <<ISend(r.link, FlowCmd(r.local, flow), Some(p)),
                                         IRecLast(p, flow)>> \o rest]
       ELSE [s EXCEPT !.pending = rest]

\* resume_one with `flow >= 0` for `flow > 0`
resume_one_nonneg(s, ins, rest) ==
    LET p == ins.p
        r == route_pump(p)
        flow == Get(s.paused_flows, p, Get(s.last_flows, p, 0))
    IN IF flow >= 0
       THEN IF ~IsValidPump(p) THEN [routed(s, p) EXCEPT !.pending = rest]
            ELSE [s EXCEPT !.pending = <<ISend(r.link, FlowCmd(r.local, flow), Some(p)),
                                         IRecLast(p, flow)>> \o rest]
       ELSE [s EXCEPT !.pending = rest]

\* QBackend.resumePumps: the first loop's body for one id
resume_one(s, ins, rest) ==
    LET p == ins.p
        r == route_pump(p)
        flow == Get(s.paused_flows, p, Get(s.last_flows, p, 0))
    IN IF flow > 0
       THEN IF ~IsValidPump(p) THEN [routed(s, p) EXCEPT !.pending = rest]
            ELSE [s EXCEPT !.pending = <<ISend(r.link, FlowCmd(r.local, flow), Some(p)),
                                         IRecLast(p, flow)>> \o rest]
       ELSE [s EXCEPT !.pending = rest]

\* self.last_flows[p] = flow
rec_last(s, ins, rest) ==
    [s EXCEPT !.last_flows = Put(@, ins.p, ins.f), !.pending = rest]

RECURSIVE PopAll(_, _)
PopAll(d, ids) == IF ids = <<>> THEN d ELSE PopAll(Pop(d, Head(ids)), Tail(ids))

\* resume_clear that pops only the ids whose snapshot was restored (> 0)
resume_clear_restored(s, ins, rest) ==
    [s EXCEPT !.paused_flows =
                 [q \in {x \in DOMAIN @ :
                            ~(\E k \in 1..Len(ins.pumps) : ins.pumps[k] = x /\ @[x] > 0)}
                    |-> @[q]],
              !.pending = rest]

\* QBackend.resumePumps: for p in ids: self.paused_flows.pop(p, None)
resume_clear(s, ins, rest) ==
    [s EXCEPT !.paused_flows = PopAll(@, ins.pumps), !.pending = rest]

\* auto_one with `base < 0` for `base <= 0`
auto_one_zero_base(s, ins, rest) ==
    LET p == ins.p
        r == route_pump(p)
        base == Get(s.last_flows, p, 0)
    IN IF base < 0 THEN [s EXCEPT !.pending = rest]
       ELSE IF ~IsValidPump(p) THEN [routed(s, p) EXCEPT !.pending = rest]
       ELSE [s EXCEPT !.pending =
                <<ISend(r.link,
                        WaveCmd(r.local, ins.shape, ins.period, ins.duty,
                                Some(0), Some(base), None), Some(p))>> \o rest]

\* QBackend.startAutomation: the loop body for one id
auto_one(s, ins, rest) ==
    LET p == ins.p
        r == route_pump(p)
        base == Get(s.last_flows, p, 0)
    IN IF base <= 0 THEN [s EXCEPT !.pending = rest]
       ELSE IF ~IsValidPump(p) THEN [routed(s, p) EXCEPT !.pending = rest]
       ELSE [s EXCEPT !.pending =
                <<ISend(r.link,
                        WaveCmd(r.local, ins.shape, ins.period, ins.duty,
                                Some(0), Some(base), None), Some(p))>> \o rest]

\* wave_for_pump that records max_flow whatever its sign
wave_for_pump_records_all(s, ins, rest) ==
    LET p == ins.p
        r == route_pump(p)
        s1 == [s EXCEPT !.last_flows = Put(@, p, ins.maxf)]
    IN IF ~IsValidPump(p) THEN [routed(s, p) EXCEPT !.pending = rest]
       ELSE [s1 EXCEPT !.pending =
                <<ISend(r.link,
                        WaveCmd(r.local, ins.shape, ins.period, ins.duty,
                                Some(ins.minf), Some(ins.maxf), None), Some(p))>> \o rest]

\* QBackend.startWaveForPump
wave_for_pump(s, ins, rest) ==
    LET p == ins.p
        r == route_pump(p)
        s1 == IF ins.maxf > 0 THEN [s EXCEPT !.last_flows = Put(@, p, ins.maxf)] ELSE s
    IN IF ~IsValidPump(p) THEN [routed(s, p) EXCEPT !.pending = rest]
       ELSE [s1 EXCEPT !.pending =
                <<ISend(r.link,
                        WaveCmd(r.local, ins.shape, ins.period, ins.duty,
                                Some(ins.minf), Some(ins.maxf), None), Some(p))>> \o rest]

\* QBackend.set_calibration: routed, nothing sent
calibrate(s, ins, rest) == [routed(s, ins.p) EXCEPT !.pending = rest]

\* QBackend.open, after both link.open() calls
open_done(s, ins, rest) ==
    LET ok == s.okv["A"] /\ s.okv["B"]
        s1 == [s EXCEPT !.connection = IF ok THEN "true" ELSE "false", !.pending = rest]
    IN IF ~ok THEN set_error(s1, OpenFailed) ELSE set_error(s1, NoError)

\* QBackend.close, after both link.close() calls
close_done(s, ins, rest) == [s EXCEPT !.connection = "false", !.pending = rest]

\* One instruction
Step(s) ==
    LET ins == Head(s.pending)
        rest == Tail(s.pending)
    IN CASE ins.i = "send" -> send(s, ins, rest)
         [] ins.i = "open_loop" -> open_loop(s, ins, rest)
         [] ins.i = "link_open" -> link_open(s, ins, rest)
         [] ins.i = "link_close" -> link_close(s, ins, rest)
         [] ins.i = "set_flow" -> set_flow(s, ins, rest)
         [] ins.i = "prime" -> prime(s, ins, rest)
         [] ins.i = "stop" -> stop_pump(s, ins, rest)
         [] ins.i = "snapshot" -> snapshot(s, ins, rest)
         [] ins.i = "pause_one" -> pause_one(s, ins, rest)
         [] ins.i = "resume_one" -> resume_one(s, ins, rest)
         [] ins.i = "rec_last" -> rec_last(s, ins, rest)
         [] ins.i = "resume_clear" -> resume_clear(s, ins, rest)
         [] ins.i = "auto_one" -> auto_one(s, ins, rest)
         [] ins.i = "wave_for_pump" -> wave_for_pump(s, ins, rest)
         [] ins.i = "calibrate" -> calibrate(s, ins, rest)
         [] ins.i = "open_done" -> open_done(s, ins, rest)
         [] ins.i = "close_done" -> close_done(s, ins, rest)

\* The calling thread runs until the operation returns or it sleeps in open()
RECURSIVE Run(_)
Run(s) == IF s.pending = <<>> \/ s.blocked THEN s ELSE Run(Step(s))

\* The bodies of the operations
pausePumps_body(ids) == [k \in 1..Len(ids) |-> Ins1("pause_one", ids[k])]

\* startAutomation_body without the check for an unknown mode
startAutomation_body_any_mode(ids, mode, shape, minutes, period, duty) ==
    IF StartsWith(Lower(mode), StrConstant) THEN <<>>
    ELSE [k \in 1..Len(ids) |-> IWave("auto_one", ids[k], shape, period, duty, 0, 0)]

resumePumps_body(ids) ==
    [k \in 1..Len(ids) |-> Ins1("resume_one", ids[k])]
        \o <<[i |-> "resume_clear", pumps |-> ids]>>

startAutomation_body(ids, mode, shape, minutes, period, duty) ==
    IF StartsWith(Lower(mode), StrConstant) THEN <<>>
    ELSE IF ~StartsWith(Lower(mode), StrPulsatile) THEN <<>>
    ELSE [k \in 1..Len(ids) |-> IWave("auto_one", ids[k], shape, period, duty, 0, 0)]

open_body == <<[i |-> "link_open", link |-> "A"], [i |-> "link_open", link |-> "B"],
               [i |-> "open_done"]>>

close_body == [k \in 1..Len(all_links) |-> [i |-> "link_close", link |-> all_links[k]]]
                  \o <<[i |-> "close_done"]>>

-----------------------------------------------------------------------------
(* Actions *)

Op(name) ==
    [op |-> name, link |-> "None", pump |-> 0, flow |-> 0, ids |-> <<>>, mode |-> <<>>,
     shape |-> "", minutes |-> 0, period |-> 0, duty |-> 0,
     minf |-> None, maxf |-> None, base |-> None]

Init ==
    /\ last_flows = <<>>
    /\ paused_flows = <<>>
    /\ last_error = NoError
    /\ connection = "none"
    /\ ser = [l \in Links |-> "None"]
    /\ stop = [l \in Links |-> FALSE]
    /\ rx_alive = [l \in Links |-> FALSE]
    /\ rx_started = [l \in Links |-> 0]
    /\ reachable \in [Links -> BOOLEAN]
    /\ issued = EmptyLog
    /\ wire = EmptyLog
    /\ pending = <<>>
    /\ okv = [l \in Links |-> FALSE]
    /\ opn = [l \in Links |-> NoOpen]
    /\ cur = Op("idle")
    /\ pre = [last_flows |-> <<>>, paused_flows |-> <<>>]
    /\ prevop = "other"
    /\ nops = 0
    /\ tx_lock = [l \in Links |-> "free"]
    /\ emitted = <<>>
    /\ last_note = None
    /\ thr = [t \in Threads |-> IdleThread]
    /\ port = [l \in Links |-> <<>>]

\* the variables take the values of the record s
Commit(s) ==
    /\ last_flows' = s.last_flows
    /\ paused_flows' = s.paused_flows
    /\ last_error' = s.last_error
    /\ connection' = s.connection
    /\ ser' = s.ser
    /\ stop' = s.stop
    /\ rx_alive' = s.rx_alive
    /\ rx_started' = s.rx_started
    /\ issued' = s.issued
    /\ wire' = s.wire
    /\ pending' = s.pending
    /\ okv' = s.okv
    /\ opn' = s.opn
    /\ tx_lock' = s.tx_lock
    /\ emitted' = s.emitted
    /\ UNCHANGED <<reachable, thr, port>>

\* An operation is called when the previous one has returned
Idle == pending = <<>> /\ cur.op = "idle" /\ nops < MaxOps

Call(c, body) ==
    /\ Commit(Run([State EXCEPT !.pending = body, !.issued = EmptyLog, !.wire = EmptyLog]))
    /\ cur' = c
    /\ pre' = [last_flows |-> last_flows, paused_flows |-> paused_flows]
    /\ prevop' = prevop
    /\ nops' = nops + 1
    /\ last_note' = last_note

SetFlow ==
    /\ Idle
    /\ \E p \in PumpInputs, f \in Flows :
        Call([Op("setFlow") EXCEPT !.pump = p, !.flow = f],
             <<[i |-> "set_flow", p |-> p, f |-> f]>>)

Prime ==
    /\ Idle
    /\ \E p \in PumpInputs :
        Call([Op("prime") EXCEPT !.pump = p], <<Ins1("prime", p)>>)

StopPump ==
    /\ Idle
    /\ \E p \in PumpInputs :
        Call([Op("stop") EXCEPT !.pump = p], <<Ins1("stop", p)>>)

StopAll ==
    /\ Idle
    /\ Call(Op("stopAll"), stop_all_links)

PauseAll ==
    /\ Idle
    /\ Call(Op("pauseAll"), <<[i |-> "snapshot"]>> \o stop_all_links)

PausePumps ==
    /\ Idle
    /\ \E ids \in IdLists :
        Call([Op("pausePumps") EXCEPT !.ids = ids], pausePumps_body(ids))

ResumePumps ==
    /\ Idle
    /\ \E ids \in IdLists :
        Call([Op("resumePumps") EXCEPT !.ids = ids], resumePumps_body(ids))

StartAutomation ==
    /\ Idle
    /\ \E ids \in IdLists, mode \in Modes, w \in WaveInputs, minutes \in MinutesIn :
        Call([Op("startAutomation") EXCEPT !.ids = ids, !.mode = mode, !.shape = w.shape,
                 !.minutes = minutes, !.period = w.period, !.duty = w.duty],
             startAutomation_body(ids, mode, w.shape, minutes, w.period, w.duty))

StartWaveForPump ==
    /\ Idle
    /\ \E p \in PumpInputs, w \in WaveInputs, minf \in {0 - 1, 0, MaxFlow}, maxf \in Flows :
        Call([Op("startWaveForPump") EXCEPT !.pump = p, !.shape = w.shape,
                 !.period = w.period, !.duty = w.duty,
                 !.minf = Some(minf), !.maxf = Some(maxf)],
             <<IWave("wave_for_pump", p, w.shape, w.period, w.duty, minf, maxf)>>)

SetCalibration ==
    /\ Idle
    /\ \E p \in PumpInputs :
        Call([Op("setCalibration") EXCEPT !.pump = p], <<Ins1("calibrate", p)>>)

Open ==
    /\ Idle
    /\ Call(Op("open"), open_body)

Close ==
    /\ Idle
    /\ Call(Op("close"), close_body)

\* The thread sleeping in open() wakes up and tries again
Retry ==
    /\ pending # <<>>
    /\ Commit(Run(State))
    /\ UNCHANGED <<cur, pre, prevop, nops, last_note>>

\* The operation has returned; its record is dropped before the next call
Forget ==
    /\ pending = <<>>
    /\ cur.op # "idle"
    /\ cur' = Op("idle")
    /\ pre' = [last_flows |-> <<>>, paused_flows |-> <<>>]
    /\ prevop' = IF cur.op = "pauseAll" THEN "pauseAll" ELSE "other"
    /\ issued' = EmptyLog
    /\ wire' = EmptyLog
    /\ okv' = [l \in Links |-> FALSE]
    /\ opn' = [l \in Links |-> NoOpen]
    /\ emitted' = <<>>
    /\ last_note' = IF emitted = <<>> THEN last_note ELSE Some(emitted[Len(emitted)])
    /\ UNCHANGED <<last_flows, paused_flows, last_error, connection, ser, stop,
                   rx_alive, rx_started, reachable, pending, nops, tx_lock, thr, port>>

\* The device of a link is plugged in or unplugged
DeviceChange ==
    \E l \in Links :
        /\ pending # <<>> \/ cur.op = "idle"
        /\ reachable' = [reachable EXCEPT ![l] = ~@]
        /\ UNCHANGED <<last_flows, paused_flows, last_error, connection, ser, stop,
                       rx_alive, rx_started, issued, wire, pending, okv, opn, cur,
                       pre, prevop, nops, tx_lock, emitted, last_note, thr, port>>

\* PumpLink._rx_loop leaves `while not self._stop`
RxLeave(l) ==
    /\ pending # <<>> \/ cur.op = "idle"
    /\ rx_alive[l] /\ stop[l]
    /\ rx_alive' = [rx_alive EXCEPT ![l] = FALSE]
    /\ UNCHANGED <<last_flows, paused_flows, last_error, connection, ser, stop,
                   rx_started, reachable, issued, wire, pending, okv, opn, cur,
                   pre, prevop, nops, tx_lock, emitted, last_note, thr, port>>

RxExit == \E l \in Links : RxLeave(l)

Next ==
    \/ SetFlow \/ Prime \/ StopPump \/ StopAll \/ PauseAll \/ PausePumps
    \/ ResumePumps \/ StartAutomation \/ StartWaveForPump \/ SetCalibration
    \/ Open \/ Close \/ Retry \/ Forget \/ DeviceChange \/ RxExit

Spec == Init /\ [][Next]_vars

-----------------------------------------------------------------------------
(* The stop operations and the lifecycle, with the thread that sleeps in    *)
(* open() waking up again and again: time.sleep(OPEN_RETRY_SEC) returns.    *)

NextStop ==
    \/ StopAll \/ PauseAll \/ Open \/ Close \/ Retry \/ Forget
    \/ DeviceChange \/ RxExit

SpecStop == Init /\ [][NextStop]_vars /\ WF_vars(Retry)

-----------------------------------------------------------------------------
(* set_flow, pause and resume only, in longer runs on fewer pumps *)

PauseIds == {1, 9, 10}
PauseLists == {<<1>>, <<9, 10, 1>>, <<1, 1>>}

IdlePause == pending = <<>> /\ cur.op = "idle" /\ nops < MaxPauseOps

PauseSetFlow ==
    /\ IdlePause
    /\ \E p \in PauseIds, f \in Flows :
        Call([Op("setFlow") EXCEPT !.pump = p, !.flow = f],
             <<[i |-> "set_flow", p |-> p, f |-> f]>>)

PausePauseAll ==
    /\ IdlePause
    /\ Call(Op("pauseAll"), <<[i |-> "snapshot"]>> \o stop_all_links)

PausePausePumps ==
    /\ IdlePause
    /\ \E ids \in PauseLists :
        Call([Op("pausePumps") EXCEPT !.ids = ids], pausePumps_body(ids))

PauseResumePumps ==
    /\ IdlePause
    /\ \E ids \in PauseLists :
        Call([Op("resumePumps") EXCEPT !.ids = ids], resumePumps_body(ids))

NextPause ==
    \/ PauseSetFlow \/ PausePauseAll \/ PausePausePumps \/ PauseResumePumps
    \/ Retry \/ Forget \/ DeviceChange

SpecPause == Init /\ [][NextPause]_vars

-----------------------------------------------------------------------------
(* PumpLink called directly, with every combination of arguments *)

IdleLink == pending = <<>> /\ cur.op = "idle" /\ nops < MaxLinkOps

LinkStartWave ==
    /\ IdleLink
    /\ \E l \in Links, pump \in LocalInputs, shape \in Shapes,
          period \in Periods, duty \in Duties,
          minf \in OptFlows, maxf \in OptFlows, base \in OptFlows :
        Call([Op("link.start_wave") EXCEPT !.link = l, !.pump = pump, !.shape = shape,
                 !.period = period, !.duty = duty,
                 !.minf = minf, !.maxf = maxf, !.base = base],
             <<ISend(l, WaveCmd(pump, shape, period, duty, minf, maxf, base), None)>>)

LinkWaveOff ==
    /\ IdleLink
    /\ \E l \in Links, pump \in LocalInputs, f \in Flows :
        Call([Op("link.wave_off") EXCEPT !.link = l, !.pump = pump, !.flow = f],
             <<ISend(l, WaveOffCmd(pump, f), None)>>)

LinkClose ==
    /\ IdleLink
    /\ \E l \in Links :
        Call([Op("link.close") EXCEPT !.link = l], <<[i |-> "link_close", link |-> l]>>)

NextLink ==
    \/ LinkStartWave \/ LinkWaveOff \/ LinkClose \/ Retry \/ Forget
    \/ DeviceChange \/ RxExit

SpecLink == Init /\ [][NextLink]_vars

-----------------------------------------------------------------------------
(* PumpLink called from several threads, one statement at a time.  A thread  *)
(* is at "lock" (waiting for _tx_lock), "check" (line 81), "open" (line 47), *)
(* "loop" (the test of line 50), "connect" (line 53), "rx_check" (line 54),  *)
(* "rx_start" (lines 55-58), "sleep" (line 63), "write" (line 86), "flush"   *)
(* (line 87), "release" (leaving the with block), "close" (line 67) or       *)
(* "close_port" (lines 69-70).                                               *)

ctl_vars == <<last_flows, paused_flows, last_error, connection, issued, wire, pending,
              okv, opn, cur, pre, prevop, emitted, last_note>>

At(t, pc) == thr[t].pc = pc
Goto(t, pc) == [thr EXCEPT ![t].pc = pc]
\* the call of thread t returns r to its caller
Return(t, r) ==
    [thr EXCEPT ![t].pc = "idle", ![t].ret = r,
                ![t].log = Append(@, [op |-> thr[t].op, link |-> thr[t].link,
                                      n |-> thr[t].n, ret |-> r,
                                      via_open |-> thr[t].via_open,
                                      made |-> thr[t].made])]
\* open() returns: to _send, which writes or skips, or to the thread itself
OpenReturns(t, result) ==
    IF thr[t].op = "send"
    THEN IF result THEN Goto(t, "write")
         ELSE [thr EXCEPT ![t].pc = "release", ![t].ret = "skipped"]
    ELSE Return(t, IF result THEN "true" ELSE "false")

\* the bytes of frame n of thread t, as handed over by write() and by flush()
Chunk(t, n, part) == [by |-> t, n |-> n, part |-> part]

\* thr with thread t at the first statement pc of method op of link l
Enter(t, op, l, pc) ==
    [thr EXCEPT ![t] = [pc |-> pc, op |-> op, link |-> l, n |-> nops + 1,
                        ret |-> "none", via_open |-> FALSE, made |-> FALSE,
                        log |-> @.log]]

\* a thread calls _send with a frame of its own
TxSend ==
    \E t \in Threads, l \in Links :
        /\ At(t, "idle") /\ nops < MaxCalls
        /\ thr' = Enter(t, "send", l, "lock")
        /\ nops' = nops + 1
        /\ UNCHANGED <<ser, stop, rx_alive, rx_started, reachable, tx_lock, port>>
        /\ UNCHANGED ctl_vars

\* a thread calls open
TxOpen ==
    \E t \in Threads, l \in Links :
        /\ At(t, "idle") /\ nops < MaxCalls
        /\ thr' = Enter(t, "open", l, "open")
        /\ nops' = nops + 1
        /\ UNCHANGED <<ser, stop, rx_alive, rx_started, reachable, tx_lock, port>>
        /\ UNCHANGED ctl_vars

\* a thread calls close
TxClose ==
    \E t \in Threads, l \in Links :
        /\ At(t, "idle") /\ nops < MaxCalls
        /\ thr' = Enter(t, "close", l, "close")
        /\ nops' = nops + 1
        /\ UNCHANGED <<ser, stop, rx_alive, rx_started, reachable, tx_lock, port>>
        /\ UNCHANGED ctl_vars

\* TxAcquire that does not wait for the lock
TxAcquire_no_wait ==
    \E t \in Threads :
        /\ At(t, "lock")
        /\ tx_lock' = [tx_lock EXCEPT ![thr[t].link] = t]
        /\ thr' = Goto(t, "check")
        /\ UNCHANGED <<ser, stop, rx_alive, rx_started, reachable, port, nops>>
        /\ UNCHANGED ctl_vars

\* with self._tx_lock: thread t takes the lock of its link when it is free
Acquire(t) ==
    /\ At(t, "lock")
    /\ tx_lock[thr[t].link] = "free"
    /\ tx_lock' = [tx_lock EXCEPT ![thr[t].link] = t]
    /\ thr' = Goto(t, "check")
    /\ UNCHANGED <<ser, stop, rx_alive, rx_started, reachable, port, nops>>
    /\ UNCHANGED ctl_vars

TxAcquire == \E t \in Threads : Acquire(t)

\* if not self.ser or not self.ser.is_open: ... self.open()
TxCheck ==
    \E t \in Threads :
        /\ At(t, "check")
        /\ thr' = IF ser[thr[t].link] = "open" THEN Goto(t, "write")
                  ELSE [thr EXCEPT ![t].pc = "open", ![t].via_open = TRUE]
        /\ UNCHANGED <<ser, stop, rx_alive, rx_started, reachable, tx_lock, port, nops>>
        /\ UNCHANGED ctl_vars

\* open(): if self.ser and self.ser.is_open: return True
TxOpenEnter ==
    \E t \in Threads :
        /\ At(t, "open")
        /\ thr' = IF ser[thr[t].link] = "open" THEN OpenReturns(t, TRUE)
                  ELSE Goto(t, "loop")
        /\ UNCHANGED <<ser, stop, rx_alive, rx_started, reachable, tx_lock, port, nops>>
        /\ UNCHANGED ctl_vars

\* TxLoop that gives up when the device is unreachable
TxLoop_gives_up ==
    \E t \in Threads :
        /\ At(t, "loop")
        /\ thr' = IF stop[thr[t].link] \/ ~reachable[thr[t].link]
                  THEN OpenReturns(t, FALSE) ELSE Goto(t, "connect")
        /\ UNCHANGED <<ser, stop, rx_alive, rx_started, reachable, tx_lock, port, nops>>
        /\ UNCHANGED ctl_vars

\* while not self._stop: ... return False
TxLoop ==
    \E t \in Threads :
        /\ At(t, "loop")
        /\ thr' = IF stop[thr[t].link] THEN OpenReturns(t, FALSE) ELSE Goto(t, "connect")
        /\ UNCHANGED <<ser, stop, rx_alive, rx_started, reachable, tx_lock, port, nops>>
        /\ UNCHANGED ctl_vars

\* self.ser = serial.Serial(...): a new connection is made and assigned, or
\* the constructor raises and the thread sleeps
TxConnect ==
    \E t \in Threads :
        /\ At(t, "connect")
        /\ IF reachable[thr[t].link]
           THEN /\ ser' = [ser EXCEPT ![thr[t].link] = "open"]
                /\ thr' = [thr EXCEPT ![t].pc = "rx_check", ![t].made = TRUE]
           ELSE /\ ser' = ser
                /\ thr' = Goto(t, "sleep")
        /\ UNCHANGED <<stop, rx_alive, rx_started, reachable, tx_lock, port, nops>>
        /\ UNCHANGED ctl_vars

\* if not self._rx_thread or not self._rx_thread.is_alive():
TxRxCheck ==
    \E t \in Threads :
        /\ At(t, "rx_check")
        /\ thr' = IF rx_alive[thr[t].link] THEN OpenReturns(t, TRUE)
                  ELSE Goto(t, "rx_start")
        /\ UNCHANGED <<ser, stop, rx_alive, rx_started, reachable, tx_lock, port, nops>>
        /\ UNCHANGED ctl_vars

\* self._rx_thread = threading.Thread(...); self._rx_thread.start(); return True
TxRxStart ==
    \E t \in Threads :
        /\ At(t, "rx_start")
        /\ rx_alive' = [rx_alive EXCEPT ![thr[t].link] = TRUE]
        /\ rx_started' = [rx_started EXCEPT ![thr[t].link] = @ + 1]
        /\ thr' = OpenReturns(t, TRUE)
        /\ UNCHANGED <<ser, stop, reachable, tx_lock, port, nops>>
        /\ UNCHANGED ctl_vars

\* time.sleep(OPEN_RETRY_SEC) ends
TxSleep ==
    \E t \in Threads :
        /\ At(t, "sleep")
        /\ thr' = Goto(t, "loop")
        /\ UNCHANGED <<ser, stop, rx_alive, rx_started, reachable, tx_lock, port, nops>>
        /\ UNCHANGED ctl_vars

\* the port takes bytes: it is open and its device is there
Writable(l) == ser[l] = "open" /\ reachable[l]

\* TxWrite whose exception leaves _send without leaving the with block
TxWrite_escapes ==
    \E t \in Threads :
        /\ At(t, "write")
        /\ IF Writable(thr[t].link)
           THEN /\ port' = [port EXCEPT ![thr[t].link] = Append(@, Chunk(t, thr[t].n, "write"))]
                /\ thr' = Goto(t, "flush")
           ELSE /\ port' = port
                /\ thr' = Return(t, "failed")
        /\ UNCHANGED <<ser, stop, rx_alive, rx_started, reachable, tx_lock, nops>>
        /\ UNCHANGED ctl_vars

\* self.ser.write(data): done, or it raises and _send prints the error
TxWrite ==
    \E t \in Threads :
        /\ At(t, "write")
        /\ IF Writable(thr[t].link)
           THEN /\ port' = [port EXCEPT ![thr[t].link] = Append(@, Chunk(t, thr[t].n, "write"))]
                /\ thr' = Goto(t, "flush")
           ELSE /\ port' = port
                /\ thr' = [thr EXCEPT ![t].pc = "release", ![t].ret = "failed"]
        /\ UNCHANGED <<ser, stop, rx_alive, rx_started, reachable, tx_lock, nops>>
        /\ UNCHANGED ctl_vars

\* self.ser.flush(): done, or it raises and _send prints the error
TxFlush ==
    \E t \in Threads :
        /\ At(t, "flush")
        /\ IF Writable(thr[t].link)
           THEN /\ port' = [port EXCEPT ![thr[t].link] = Append(@, Chunk(t, thr[t].n, "flush"))]
                /\ thr' = [thr EXCEPT ![t].pc = "release", ![t].ret = "written"]
           ELSE /\ port' = port
                /\ thr' = [thr EXCEPT ![t].pc = "release", ![t].ret = "failed"]
        /\ UNCHANGED <<ser, stop, rx_alive, rx_started, reachable, tx_lock, nops>>
        /\ UNCHANGED ctl_vars

\* the with block is left: the lock is released and _send returns
TxRelease ==
    \E t \in Threads :
        /\ At(t, "release")
        /\ tx_lock' = [tx_lock EXCEPT ![thr[t].link] = "free"]
        /\ thr' = Return(t, thr[t].ret)
        /\ UNCHANGED <<ser, stop, rx_alive, rx_started, reachable, port, nops>>
        /\ UNCHANGED ctl_vars

\* close(): self._stop = True
TxCloseStop ==
    \E t \in Threads :
        /\ At(t, "close")
        /\ stop' = [stop EXCEPT ![thr[t].link] = TRUE]
        /\ thr' = Goto(t, "close_port")
        /\ UNCHANGED <<ser, rx_alive, rx_started, reachable, tx_lock, port, nops>>
        /\ UNCHANGED ctl_vars

\* close(): if self.ser and self.ser.is_open: self.ser.close()
TxClosePort ==
    \E t \in Threads :
        /\ At(t, "close_port")
        /\ ser' = [ser EXCEPT ![thr[t].link] = IF @ = "open" THEN "closed" ELSE @]
        /\ thr' = Return(t, "done")
        /\ UNCHANGED <<stop, rx_alive, rx_started, reachable, tx_lock, port, nops>>
        /\ UNCHANGED ctl_vars

NextTx ==
    \/ TxSend \/ TxOpen \/ TxClose \/ TxAcquire \/ TxCheck \/ TxOpenEnter \/ TxLoop
    \/ TxConnect \/ TxRxCheck \/ TxRxStart \/ TxSleep \/ TxWrite \/ TxFlush
    \/ TxRelease \/ TxCloseStop \/ TxClosePort \/ DeviceChange \/ RxExit

SpecTx == Init /\ [][NextTx]_vars

-----------------------------------------------------------------------------
(* Properties *)

GlobalIds == 1..9
\* the link and the local id that the static partition assigns to a global id
MapLink(g) == IF g \in DOMAIN PUMP_MAP_A THEN "A" ELSE "B"
MapLocal(g) == IF g \in DOMAIN PUMP_MAP_A THEN PUMP_MAP_A[g] ELSE PUMP_MAP_B[g]
OtherLink(l) == IF l = "A" THEN "B" ELSE "A"

Returned(op) == cur.op = op /\ pending = <<>>
FlowsUnchanged == last_flows = pre.last_flows /\ paused_flows = pre.paused_flows
NothingSent == issued = EmptyLog /\ wire = EmptyLog

IsPumpEntry(e, k) == e.frame.cmd # "stop_all" /\ e.frame.pump = k
\* the commands of the current operation for global id g, in order
SentFor(g) ==
    LET Mine(e) == IsPumpEntry(e, MapLocal(g))
    IN SelectSeq(issued[MapLink(g)], Mine)
\* the commands of the current operation on link l that carry the tag g
Tagged(l, g) ==
    LET Mine(e) == e.gid = Some(g)
    IN SelectSeq(issued[l], Mine)
Occurrences(ids, g) == Cardinality({k \in 1..Len(ids) : ids[k] = g})
Range(seq) == {seq[k] : k \in 1..Len(seq)}
\* a dict entry as an optional value
Entry(d, g) == IF g \in DOMAIN d THEN Some(d[g]) ELSE None

\* C1: pauseAll() immediately followed by resumePumps(all nine ids) sends, for
\* every pump whose last_flow before the pause was > 0, exactly one
\* constant-flow command with that flow and leaves its last_flow as it was;
\* it sends nothing for a pump whose last_flow was 0 or never recorded.
\* (pauseAll itself never changes last_flows, so the flows at the call of
\* resumePumps are the flows before the pause.)
C1_PauseAllResumeAll ==
    /\ cur.op = "pauseAll" => last_flows = pre.last_flows
    /\ (Returned("resumePumps") /\ cur.ids = AllPumps /\ prevop = "pauseAll") =>
          \A g \in GlobalIds :
              LET before == pre.last_flows
              IN /\ (g \in DOMAIN before /\ before[g] > 0) =>
                        /\ SentFor(g) = <<[frame |-> [cmd |-> "flow", pump |-> MapLocal(g),
                                                      flow |-> before[g]],
                                           gid |-> Some(g)]>>
                        /\ g \in DOMAIN last_flows
                        /\ last_flows[g] = before[g]
                 /\ (g \notin DOMAIN before \/ before[g] = 0) => SentFor(g) = <<>>

C1_Witness ==
    /\ Returned("resumePumps") /\ cur.ids = AllPumps /\ prevop = "pauseAll"
    /\ \E g \in GlobalIds : g \in DOMAIN pre.last_flows /\ pre.last_flows[g] > 0
                            /\ Len(SentFor(g)) = 1
    /\ \E g \in GlobalIds : g \notin DOMAIN pre.last_flows

\* C2: after resumePumps(S) returns, no id of S has a paused_flows entry,
\* whatever S holds and whatever came before.
C2_ResumeClearsPaused ==
    Returned("resumePumps") =>
        \A k \in 1..Len(cur.ids) : cur.ids[k] \notin DOMAIN paused_flows

\* a snapshot that is not restored (flow <= 0) is cleared too
C2_Witness ==
    /\ Returned("resumePumps")
    /\ \E k \in 1..Len(cur.ids) :
          /\ cur.ids[k] \in DOMAIN pre.paused_flows
          /\ pre.paused_flows[cur.ids[k]] <= 0
          /\ cur.ids[k] \notin DOMAIN paused_flows

\* C3: stop(id) with a valid id gives the pump's link a stop command and then,
\* as the next command, a wave command with shape off, min_flow 0 and
\* max_flow 0 for the same local id; stop(id) changes neither last_flows nor
\* paused_flows.
C3_StopThenWaveOff ==
    cur.op = "stop" =>
        /\ FlowsUnchanged
        /\ cur.pump \in GlobalIds =>
              LET l == MapLink(cur.pump)
                  k == MapLocal(cur.pump)
              IN /\ issued[OtherLink(l)] = <<>>
                 /\ Len(issued[l]) <= 2
                 /\ Len(issued[l]) >= 1 => issued[l][1].frame = [cmd |-> "stop", pump |-> k]
                 /\ Len(issued[l]) = 2 =>
                       LET w == issued[l][2].frame
                       IN /\ w.cmd = "wave" /\ w.pump = k /\ w.shape = "off"
                          /\ w.min_flow = 0 /\ w.max_flow = 0
                 /\ pending = <<>> => Len(issued[l]) = 2

C3_Witness ==
    /\ Returned("stop") /\ cur.pump \in GlobalIds
    /\ cur.pump \in DOMAIN last_flows
    /\ Len(issued[MapLink(cur.pump)]) = 2

SingleOps == {"setFlow", "prime", "stop", "startWaveForPump", "setCalibration"}
BatchOps == {"pausePumps", "resumePumps", "startAutomation"}
PulsatileModes == { <<"P", "u", "l", "s", "a", "t", "i", "l", "e">>,
                    <<"p", "u", "l", "s", "a", "t", "i", "l", "e">> }
\* commands that a batch operation sends for one occurrence of a valid id
PerOccurrence(g) ==
    CASE cur.op = "pausePumps" -> 1
      [] cur.op = "resumePumps" ->
            IF (IF g \in DOMAIN pre.paused_flows THEN pre.paused_flows[g]
                ELSE IF g \in DOMAIN pre.last_flows THEN pre.last_flows[g] ELSE 0) > 0
            THEN 1 ELSE 0
      [] cur.op = "startAutomation" ->
            IF cur.mode \in PulsatileModes /\ g \in DOMAIN pre.last_flows
               /\ pre.last_flows[g] > 0
            THEN 1 ELSE 0

\* C4: an id outside 1..9 makes every single-pump operation send nothing and
\* change no flow record; in a batch operation nothing is sent for it and no
\* record of any pump other than the batch's valid ids changes, while every
\* valid id of the batch is still processed.
C4_InvalidIdIsNoOp ==
    /\ (cur.op \in SingleOps /\ cur.pump \notin GlobalIds) =>
          NothingSent /\ FlowsUnchanged /\ pending = <<>>
    /\ cur.op \in BatchOps =>
          LET valid == Range(cur.ids) \cap GlobalIds
          IN /\ \A l \in Links : \A k \in 1..Len(issued[l]) :
                    /\ issued[l][k].gid # None
                    /\ Val(issued[l][k].gid) \in valid
             /\ \A g \in (0..10) \ valid :
                    /\ Entry(last_flows, g) = Entry(pre.last_flows, g)
                    /\ Entry(paused_flows, g) = Entry(pre.paused_flows, g)
             /\ pending = <<>> =>
                    \A g \in valid :
                        Len(Tagged(MapLink(g), g)) = Occurrences(cur.ids, g) * PerOccurrence(g)

\* a batch with an invalid id before a valid one, whose command is sent
C4_Witness ==
    /\ Returned("pausePumps")
    /\ cur.ids = <<0, 9, 10, 4>>
    /\ Len(Tagged("A", 4)) = 1 /\ Len(Tagged("B", 9)) = 1
    /\ last_error = InvalidPump(10)

FrameFields == {"cmd", "pump", "flow", "shape", "period", "duty", "min_flow", "max_flow"}

\* C5: every per-pump command sent for a global id g goes to the link that
\* the static partition assigns to g and carries g's local id (1..5 on link
\* A, 1..4 on link B); each global id has exactly one (link, local id) pair
\* and no two share one; a frame holds no global id; what is written to a
\* port is a command given to that link.
C5_LocalIdOnMappedLink ==
    /\ \A g \in GlobalIds : (g \in DOMAIN PUMP_MAP_A) # (g \in DOMAIN PUMP_MAP_B)
    /\ (DOMAIN PUMP_MAP_A) \cup (DOMAIN PUMP_MAP_B) = GlobalIds
    /\ \A g, h \in GlobalIds :
          (MapLink(g) = MapLink(h) /\ MapLocal(g) = MapLocal(h)) => g = h
    /\ \A g \in GlobalIds :
          MapLocal(g) \in (IF MapLink(g) = "A" THEN 1..5 ELSE 1..4)
    /\ \A l \in Links : \A k \in 1..Len(issued[l]) :
          LET e == issued[l][k]
          IN /\ DOMAIN e.frame \subseteq FrameFields
             /\ e.gid # None =>
                   /\ Val(e.gid) \in GlobalIds
                   /\ l = MapLink(Val(e.gid))
                   /\ e.frame.pump = MapLocal(Val(e.gid))
    /\ \A l \in Links : \A k \in 1..Len(wire[l]) :
          \E j \in 1..Len(issued[l]) : issued[l][j].frame = wire[l][k]

\* a command for global id 9 written to link B with local id 4
C5_Witness ==
    /\ Returned("setFlow") /\ cur.pump = 9
    /\ Len(wire["B"]) = 1 /\ wire["B"][1].pump = 4
    /\ issued["A"] = <<>>

\* C6: startAutomation with mode constant, or with a mode that is not
\* pulsatile, sends nothing on either link and leaves last_flows and
\* paused_flows unchanged.
C6_ConstantAutomationIsNoOp ==
    (cur.op = "startAutomation" /\ cur.mode \notin PulsatileModes) =>
        NothingSent /\ FlowsUnchanged /\ pending = <<>>

\* the no-op happens although a listed pump has a positive base flow
C6_Witness ==
    /\ Returned("startAutomation")
    /\ cur.mode = <<"C", "o", "n", "s", "t", "a", "n", "t">>
    /\ \E k \in 1..Len(cur.ids) :
          cur.ids[k] \in DOMAIN last_flows /\ last_flows[cur.ids[k]] > 0
    /\ NothingSent

\* the normalized duty percentage of a duty fraction (both in hundredths)
DutyPercentOf(d) == IF d <= 0 THEN 5000 ELSE IF d >= 100 THEN 9900 ELSE 100 * d

\* the wave commands of startAutomation on link l, with `per` as the period
AutoWaves(l, per) ==
    LET Has(g) == /\ g \in GlobalIds /\ MapLink(g) = l
                  /\ g \in DOMAIN pre.last_flows /\ pre.last_flows[g] > 0
        sel == SelectSeq(cur.ids, Has)
    IN [k \in 1..Len(sel) |->
           [frame |-> [cmd |-> "wave", pump |-> MapLocal(sel[k]), shape |-> cur.shape,
                       period |-> per, duty |-> DutyPercentOf(cur.duty),
                       min_flow |-> 0, max_flow |-> pre.last_flows[sel[k]]],
            gid |-> Some(sel[k])]]

\* C7 as claimed: pulsatile startAutomation sends, for each listed id with
\* last_flow > 0, one wave command with the given shape, the given period,
\* the normalized duty, min_flow 0 and max_flow = last_flow, nothing for the
\* other ids, and leaves last_flows unchanged.
C7_AsClaimed ==
    (Returned("startAutomation") /\ cur.mode \in PulsatileModes) =>
        /\ \A l \in Links : issued[l] = AutoWaves(l, cur.period)
        /\ last_flows = pre.last_flows

\* C7, amended: the period of the wave command is the given period when it
\* is > 0 and 1 second otherwise; the rest as claimed.
C7_AutomationWaves ==
    (Returned("startAutomation") /\ cur.mode \in PulsatileModes) =>
        /\ \A l \in Links :
              issued[l] = AutoWaves(l, IF cur.period > 0 THEN cur.period ELSE 1)
        /\ last_flows = pre.last_flows

C7_Witness ==
    /\ Returned("startAutomation") /\ cur.mode \in PulsatileModes
    /\ cur.period = 0
    /\ \E l \in Links : Len(issued[l]) = 1 /\ issued[l][1].frame.period = 1
                        /\ issued[l][1].frame.max_flow = MaxFlow

\* C8: an open() call on a closed link with no shutdown requested, whose
\* connection attempts fail any number of times and then succeed, returns
\* true with exactly one reader started; a failed attempt starts none, and
\* open() returns false only when shutdown was requested.
C8_OpenStartsOneReader ==
    \A l \in Links :
        /\ (opn[l].ret = "true" /\ ~opn[l].was_open) =>
              /\ opn[l].started = 1 /\ rx_started[l] = 1
              /\ ser[l] = "open" /\ rx_alive[l]
        /\ opn[l].ret = "running" =>
              /\ opn[l].started = 0 /\ rx_started[l] = 0 /\ ser[l] # "open"
        /\ opn[l].ret = "false" => stop[l]

\* two failed attempts, then success
C8_Witness ==
    \E l \in Links :
        /\ opn[l].ret = "true" /\ opn[l].fails >= 2
        /\ opn[l].started = 1 /\ ~stop[l]

\* C9 as claimed: after close() on a link that was open, a later open() with
\* the device reachable opens the connection again and returns true, and a
\* command sent after that is written to the port.
C9_AsClaimed ==
    \A l \in Links :
        /\ (Returned("open") /\ rx_started[l] >= 1 /\ stop[l] /\ reachable[l]) =>
              okv[l] /\ ser[l] = "open"
        /\ (Returned("stopAll") /\ rx_started[l] >= 1 /\ stop[l] /\ reachable[l]) =>
              wire[l] = <<StopAllCmd>>

NonNeg(x) == IF x < 0 THEN 0 ELSE x
Ordered(a, b) == IF b < a THEN <<b, a>> ELSE <<a, b>>
\* <<min_flow, max_flow>> of the frame that the link call sent
SentBounds ==
    LET w == issued[cur.link][1].frame
    IN <<w.min_flow, w.max_flow>>

\* C10 as claimed: both bounds supplied -> use them; only base supplied ->
\* min 0, max base; otherwise every missing bound is 0; then both are
\* clamped to >= 0 and swapped if max < min.
C10_AsClaimed ==
    cur.op = "link.start_wave" =>
        LET onlyBase == IsNone(cur.minf) /\ IsNone(cur.maxf) /\ ~IsNone(cur.base)
            mn == IF onlyBase THEN 0 ELSE IF IsNone(cur.minf) THEN 0 ELSE Val(cur.minf)
            mx == IF onlyBase THEN Val(cur.base)
                  ELSE IF IsNone(cur.maxf) THEN 0 ELSE Val(cur.maxf)
        IN SentBounds = Ordered(NonNeg(mn), NonNeg(mx))

\* C10, amended: as claimed, except that a missing max_flow defaults to the
\* min_flow (as supplied, or 0 when that is missing too), not to 0.
C10_WaveBounds ==
    cur.op = "link.start_wave" =>
        LET onlyBase == IsNone(cur.minf) /\ IsNone(cur.maxf) /\ ~IsNone(cur.base)
            mn == IF onlyBase THEN 0 ELSE IF IsNone(cur.minf) THEN 0 ELSE Val(cur.minf)
            mx == IF onlyBase THEN Val(cur.base)
                  ELSE IF IsNone(cur.maxf) THEN mn ELSE Val(cur.maxf)
        IN SentBounds = Ordered(NonNeg(mn), NonNeg(mx))

\* min_flow given without max_flow: both bounds of the frame are min_flow
C10_Witness ==
    /\ Returned("link.start_wave")
    /\ cur.minf = Some(MaxFlow) /\ cur.maxf = None /\ cur.base = Some(1)
    /\ SentBounds = <<MaxFlow, MaxFlow>>
    /\ wire[cur.link] # <<>>

-----------------------------------------------------------------------------
\* the wave commands given to link l by the current operation
WaveFrames(l) == {issued[l][k].frame : k \in {j \in 1..Len(issued[l]) : issued[l][j].frame.cmd = "wave"}}

\* C11: for every duty fraction d given to start_wave, the duty of the wave
\* command is 50% when d <= 0, 99% when d >= 1 and 100*d % when 0 < d < 1
\* (values in hundredths: 5000, 9900, 100*d); every wave command given to a
\* link, wave_off's included, has 0 < duty < 100%.
C11_DutyNormalized ==
    /\ cur.op = "link.start_wave" =>
          issued[cur.link][1].frame.duty =
              (IF cur.duty <= 0 THEN 5000 ELSE IF cur.duty >= 100 THEN 9900 ELSE 100 * cur.duty)
    /\ \A l \in Links : \A w \in WaveFrames(l) : 0 < w.duty /\ w.duty < 10000

\* the fraction 1.0 is sent as 99%
C11_Witness ==
    /\ Returned("link.start_wave")
    /\ cur.duty = 100
    /\ wire[cur.link] # <<>>
    /\ wire[cur.link][1].duty = 9900

-----------------------------------------------------------------------------
\* the finished calls of thread t
Log(t) == {thr[t].log[k] : k \in 1..Len(thr[t].log)}
\* the positions in the chunks written to link l of part `part` of frame n of t
Chunks(l, t, n, part) == {k \in 1..Len(port[l]) : port[l][k] = Chunk(t, n, part)}
\* the statements of _send at which the lock is held
Locked == {"check", "open", "loop", "connect", "sleep", "rx_check", "rx_start",
           "write", "flush", "release"}

\* C12: _send on a link whose port is not open calls open() first; when
\* open() returns false (the stop flag is set) nothing of the frame is
\* written and _send returns; a write or flush that raises ends the send,
\* whose frame is never completed later (no queue, no retry: at most one
\* write of it); every send returns as written, skipped or failed; and a
\* thread holds a link's lock only inside _send on that link, never after
\* _send has returned.
C12_SendDropsQuietly ==
    \A t \in Threads :
        /\ At(t, "idle") => \A l \in Links : tx_lock[l] # t
        /\ \A l \in Links :
              tx_lock[l] = t <=>
                  (thr[t].op = "send" /\ thr[t].link = l /\ thr[t].pc \in Locked)
        /\ \A e \in Log(t) :
              e.op = "send" =>
                  /\ e.ret \in {"written", "skipped", "failed"}
                  /\ e.ret = "skipped" =>
                        /\ e.via_open /\ stop[e.link]
                        /\ Chunks(e.link, t, e.n, "write") = {}
                  /\ e.ret # "written" => Chunks(e.link, t, e.n, "flush") = {}
                  /\ e.ret = "written" => Cardinality(Chunks(e.link, t, e.n, "flush")) = 1
                  /\ Cardinality(Chunks(e.link, t, e.n, "write")) <= 1

\* one send was skipped because open() returned false, another failed in
\* its write, both have returned and every lock is free
C12_Witness ==
    /\ \A t \in Threads : At(t, "idle")
    /\ \A l \in Links : tx_lock[l] = "free"
    /\ \E t \in Threads : \E e \in Log(t) : e.op = "send" /\ e.ret = "skipped"
    /\ \E t \in Threads : \E e \in Log(t) :
          e.op = "send" /\ e.ret = "failed" /\ Chunks(e.link, t, e.n, "write") = {}

\* thread t is in _send on link l between the start of its write and the end
\* of its flush
InFrame(t, l) == thr[t].op = "send" /\ thr[t].link = l /\ thr[t].pc \in {"write", "flush"}

\* C13: on each link at most one thread at a time is between the start of
\* its write and the end of its flush, so on the port every flush chunk
\* directly follows the write chunk of the same frame; a thread waiting for
\* the lock of a link can take it whenever that lock is free, whoever holds
\* the lock of the other link.
C13_OneWriterPerLink ==
    /\ \A l \in Links : Cardinality({t \in Threads : InFrame(t, l)}) <= 1
    /\ \A l \in Links : \A k \in 1..Len(port[l]) :
          port[l][k].part = "flush" =>
              /\ k > 1
              /\ port[l][k - 1] = Chunk(port[l][k].by, port[l][k].n, "write")
    /\ \A t \in Threads :
          (At(t, "lock") /\ tx_lock[thr[t].link] = "free") => ENABLED Acquire(t)

\* two threads are writing at the same time, one on each link
C13_Witness ==
    \E t, u \in Threads : At(t, "flush") /\ thr[t].link = "A"
                           /\ At(u, "flush") /\ thr[u].link = "B"

\* close() has been called on link l and has returned
Closed(l) == \E u \in Threads : \E c \in Log(u) : c.op = "close" /\ c.link = l

C14_AsClaimed ==
    (cur.op \in {"stopAll", "pauseAll"} /\ reachable["B"] /\ ~stop["A"] /\ ~stop["B"])
        ~> (\/ \E k \in 1..Len(wire["B"]) : wire["B"][k] = StopAllCmd
            \/ ~reachable["B"] \/ stop["A"] \/ stop["B"])

\* the flow that resumePumps restores for id g: the paused snapshot if there
\* is one, else the recorded last flow, else 0
RestoreFlow(g) ==
    IF g \in DOMAIN pre.paused_flows THEN pre.paused_flows[g]
    ELSE IF g \in DOMAIN pre.last_flows THEN pre.last_flows[g] ELSE 0

\* C16: when resumePumps(ids) has returned, for every id of ids the restore
\* flow is paused_flows[id] if a snapshot existed (whatever last_flows[id]
\* had become), else last_flows[id], else 0; for a valid id one
\* constant-flow command with that flow was given to its link per
\* occurrence of the id exactly when the flow is > 0, and then
\* last_flows[id] is that flow; otherwise nothing was sent for the id and
\* its last_flows entry is as before; every command of resumePumps is a
\* constant-flow command with flow > 0 for a valid id of ids.
C16_ResumeRestoresFlow ==
    Returned("resumePumps") =>
        /\ \A g \in Range(cur.ids) \cap GlobalIds :
              LET f == RestoreFlow(g)
                  sent == Tagged(MapLink(g), g)
              IN /\ Len(sent) = (IF f > 0 THEN Occurrences(cur.ids, g) ELSE 0)
                 /\ \A k \in 1..Len(sent) : sent[k].frame = FlowCmd(MapLocal(g), f)
                 /\ f > 0 => (g \in DOMAIN last_flows /\ last_flows[g] = f)
                 /\ f <= 0 => Entry(last_flows, g) = Entry(pre.last_flows, g)
        /\ \A g \in (0..10) \ (Range(cur.ids) \cap GlobalIds) :
              Entry(last_flows, g) = Entry(pre.last_flows, g)
        /\ \A l \in Links : \A k \in 1..Len(issued[l]) :
              /\ issued[l][k].frame.cmd = "flow" /\ issued[l][k].frame.flow > 0
              /\ issued[l][k].gid # None
              /\ Val(issued[l][k].gid) \in Range(cur.ids) \cap GlobalIds

\* the snapshot is restored although set_flow changed last_flows after the pause
C16_Witness ==
    /\ Returned("resumePumps")
    /\ \E g \in Range(cur.ids) \cap GlobalIds :
          /\ g \in DOMAIN pre.paused_flows /\ g \in DOMAIN pre.last_flows
          /\ pre.paused_flows[g] > 0
          /\ pre.last_flows[g] # pre.paused_flows[g]
          /\ last_flows[g] = pre.paused_flows[g]
          /\ Len(Tagged(MapLink(g), g)) >= 1

\* every text emitted by lastErrorChanged so far that matters here: the last
\* one before the current operation, then those of the current operation
Notes == (IF IsNone(last_note) THEN <<>> ELSE <<Val(last_note)>>) \o emitted

\* C17: no two consecutive lastErrorChanged notifications carry the same
\* text; the first one differs from the initial empty text and the latest
\* one is the recorded _last_error, so a notification is emitted only when
\* the text differs from the recorded one; an operation that fails with the
\* text notified last (the same invalid pump id again, open() failing
\* again) emits nothing.
C17_ErrorNotifiedOnChange ==
    /\ \A k \in 1..(Len(Notes) - 1) : Notes[k] # Notes[k + 1]
    /\ Notes = <<>> => last_error = NoError
    /\ Notes # <<>> => Notes[Len(Notes)] = last_error
    /\ (IsNone(last_note) /\ emitted # <<>>) => emitted[1] # NoError
    /\ (cur.op \in SingleOps /\ cur.pump \notin GlobalIds
           /\ last_note = Some(InvalidPump(cur.pump))) => emitted = <<>>
    /\ (Returned("open") /\ connection = "false" /\ last_note = Some(OpenFailed)) =>
          emitted = <<>>

\* open() fails for the second time in a row and notifies nothing
C17_Witness ==
    /\ Returned("open") /\ connection = "false"
    /\ last_note = Some(OpenFailed)
    /\ last_error = OpenFailed
    /\ emitted = <<>>

\* C18: startWaveForPump with a valid id sets last_flows[id] to max_flow
\* when max_flow > 0 and leaves it as it was when max_flow <= 0; no other
\* entry of last_flows and no entry of paused_flows changes; exactly one
\* command, a wave command for the pump's local id with the given shape, is
\* given to the pump's link and none to the other link.
C18_WaveRecordsMaxFlow ==
    (cur.op = "startWaveForPump" /\ cur.pump \in GlobalIds) =>
        LET l == MapLink(cur.pump)
        IN /\ Val(cur.maxf) > 0 => last_flows = Put(pre.last_flows, cur.pump, Val(cur.maxf))
           /\ Val(cur.maxf) <= 0 => last_flows = pre.last_flows
           /\ paused_flows = pre.paused_flows
           /\ issued[OtherLink(l)] = <<>>
           /\ Len(issued[l]) = 1
           /\ issued[l][1].gid = Some(cur.pump)
           /\ issued[l][1].frame.cmd = "wave"
           /\ issued[l][1].frame.pump = MapLocal(cur.pump)
           /\ issued[l][1].frame.shape = cur.shape

\* a max_flow <= 0 leaves the recorded flow of the pump, and a wave is sent
C18_Witness ==
    /\ Returned("startWaveForPump") /\ cur.pump \in GlobalIds
    /\ Val(cur.maxf) <= 0
    /\ cur.pump \in DOMAIN last_flows /\ last_flows[cur.pump] > 0
    /\ Len(wire[MapLink(cur.pump)]) = 1

\* a wave frame whose period is > 0 and whose bounds are >= 0 and in order
SaneWave(w) ==
    w.period > 0 /\ w.min_flow >= 0 /\ w.max_flow >= 0 /\ w.min_flow <= w.max_flow

\* C19: every wave command that an operation gives to a link or writes to a
\* port (startWaveForPump, startAutomation, stop's wave-off), whatever the
\* inputs, has period > 0, min_flow >= 0, max_flow >= 0 and
\* min_flow <= max_flow.
C19_WavesAreSane ==
    \A l \in Links :
        /\ \A w \in WaveFrames(l) : SaneWave(w)
        /\ \A k \in 1..Len(wire[l]) : wire[l][k].cmd = "wave" => SaneWave(wire[l][k])

\* inverted bounds, one of them negative, with a negative period
C19_Witness ==
    /\ Returned("startWaveForPump")
    /\ cur.minf = Some(MaxFlow) /\ cur.maxf = Some(0 - 1) /\ cur.period < 0
    /\ \E l \in Links :
          /\ Len(wire[l]) = 1
          /\ wire[l][1].min_flow = 0 /\ wire[l][1].max_flow = MaxFlow
          /\ wire[l][1].period = DefaultPeriod

\* C20: every id with a paused_flows entry has a last_flows entry, and every
\* id with a last_flows entry is a global pump id of the mapping (1..9),
\* whatever ids the operations were given.
C20_FlowDomains ==
    /\ DOMAIN paused_flows \subseteq DOMAIN last_flows
    /\ DOMAIN last_flows \subseteq GlobalIds
    /\ \A g \in DOMAIN last_flows : IsValidPump(g)

\* invalid ids were given, to set_flow and in a pause batch, and a snapshot exists
C20_Witness ==
    /\ Returned("pausePumps") /\ cur.ids = <<0, 9, 10, 4>>
    /\ last_error = InvalidPump(10)
    /\ DOMAIN paused_flows # {}
    /\ DOMAIN paused_flows \subseteq {4, 9}

-----------------------------------------------------------------------------
\* the calls of thread t: the finished ones and the one in progress
Calls(t) ==
    Log(t) \cup
    (IF At(t, "idle") THEN {}
     ELSE {[op |-> thr[t].op, link |-> thr[t].link, n |-> thr[t].n, ret |-> "none",
            via_open |-> thr[t].via_open, made |-> thr[t].made]})
\* the calls in which serial.Serial(...) of line 53 has returned a connection
\* for link l
Made(l) ==
    UNION {{c.n : c \in {e \in Calls(t) : e.link = l /\ e.made}} : t \in Threads}
\* link l has been given a direct open() by one thread and a send that went
\* into open() under the write lock by another, and no close()
OpenRace(l) ==
    /\ ~stop[l]
    /\ \E t, u \in Threads :
          /\ t # u
          /\ \E c \in Calls(t) : c.op = "open" /\ c.link = l
          /\ \E c \in Calls(u) : c.op = "send" /\ c.link = l /\ c.via_open

\* C21 as claimed: when a link is given a direct open() by one thread and a
\* send that opens it implicitly by another, at most one connection is
\* created for it and at most one reader thread is started for it (no
\* reader has left its loop, the stop flag not being set, so the readers
\* started are the live ones).
C21_AsClaimed ==
    \A l \in Links :
        OpenRace(l) => Cardinality(Made(l)) <= 1 /\ rx_started[l] <= 1

====
